---------------------------- MODULE Spec2Model ----------------------------
(***************************************************************************)
(* Model of create-exercise.js: the exercise scaffolding script.           *)
(*                                                                         *)
(* A JavaScript string is a sequence of one-character strings, so that     *)
(* startsWith, the regular expression, parseInt, String(), padStart, the   *)
(* default sort order and the template literals are computed character by  *)
(* character.  A JavaScript object is the sequence of its <<key, value>>   *)
(* properties in own-property order.                                       *)
(***************************************************************************)
EXTENDS Integers, Sequences, FiniteSets, TLC

(***************************************************************************)
(* Characters and their UTF-16 code units (the printable ASCII range).     *)
(* The entries for the double quote (34), the apostrophe (39), the         *)
(* backslash (92) and the grave accent (96) are placeholders: none of      *)
(* these characters occurs in the model.                                   *)
(***************************************************************************)
Printable ==
    << " ", "!", "dquote", "#", "$", "%", "&", "quote", "(", ")", "*", "+", ",", "-", ".", "/",
       "0", "1", "2", "3", "4", "5", "6", "7", "8", "9", ":", ";", "<", "=", ">", "?",
       "@", "A", "B", "C", "D", "E", "F", "G", "H", "I", "J", "K", "L", "M", "N", "O",
       "P", "Q", "R", "S", "T", "U", "V", "W", "X", "Y", "Z", "[", "backslash", "]", "^", "_",
       "grave", "a", "b", "c", "d", "e", "f", "g", "h", "i", "j", "k", "l", "m", "n", "o",
       "p", "q", "r", "s", "t", "u", "v", "w", "x", "y", "z", "{", "|", "}", "~" >>

CharCode ==
    [c \in {Printable[i] : i \in 1..Len(Printable)} |->
        (CHOOSE i \in 1..Len(Printable) : Printable[i] = c) + 31]

FromCharCode(n) == Printable[n - 31]

IsDigit(c) == CharCode[c] >= CharCode["0"] /\ CharCode[c] <= CharCode["9"]

\* String.prototype.toUpperCase on one ASCII character.
ToUpperCase(c) ==
    IF CharCode[c] >= CharCode["a"] /\ CharCode[c] <= CharCode["z"]
    THEN FromCharCode(CharCode[c] - (CharCode["a"] - CharCode["A"]))
    ELSE c

\* String.prototype.startsWith
StartsWith(s, prefix) ==
    /\ Len(s) >= Len(prefix)
    /\ SubSeq(s, 1, Len(prefix)) = prefix

\* String.prototype.slice(from) with a 0-based index.
Slice(s, from) == SubSeq(s, from + 1, Len(s))

\* String.prototype.replace(/-/g, space)
ReplaceHyphens(s) == [i \in 1..Len(s) |-> IF s[i] = "-" THEN " " ELSE s[i]]

\* The comparison of the default Array.prototype.sort: by code units, a
\* proper prefix before the longer string.
RECURSIVE StrLess(_, _)
StrLess(a, b) ==
    IF b = <<>> THEN FALSE
    ELSE IF a = <<>> THEN TRUE
    ELSE IF Head(a) = Head(b) THEN StrLess(Tail(a), Tail(b))
    ELSE CharCode[Head(a)] < CharCode[Head(b)]

\* parseInt on a string of decimal digits.
RECURSIVE ParseInt(_)
ParseInt(digits) ==
    IF digits = <<>> THEN 0
    ELSE ParseInt(SubSeq(digits, 1, Len(digits) - 1)) * 10
         + (CharCode[digits[Len(digits)]] - CharCode["0"])

\* String(n) for a non-negative integer.
RECURSIVE NumberToString(_)
NumberToString(n) ==
    IF n < 10 THEN << FromCharCode(CharCode["0"] + n) >>
    ELSE Append(NumberToString(n \div 10), FromCharCode(CharCode["0"] + (n % 10)))

\* String.prototype.padStart(width, fill) with a one-character fill.
RECURSIVE PadStart(_, _, _)
PadStart(s, width, fill) ==
    IF Len(s) >= width THEN s ELSE PadStart(<<fill>> \o s, width, fill)

PadWidth == 2
BasePort == 4200

ExercisePrefix == <<"e","x","e","r","c","i","s","e","-">>

\* The length of the longest run of digits of s that starts at 1-based
\* position i (the greedy \d+).
RECURSIVE DigitRun(_, _)
DigitRun(s, i) ==
    IF i <= Len(s) /\ IsDigit(s[i]) THEN 1 + DigitRun(s, i + 1) ELSE 0

\* The match with \d in place of \d+: one digit, then the hyphen.
MatchOneDigit(dir) ==
    LET start == Len(ExercisePrefix) + 1
    IN  IF /\ StartsWith(dir, ExercisePrefix)
           /\ start + 1 <= Len(dir)
           /\ IsDigit(dir[start])
           /\ dir[start + 1] = "-"
        THEN << SubSeq(dir, start, start) >>
        ELSE <<>>

\* dir.match(/^exercise-(\d+)-/): <<>> for null, else << match[1] >>.
MatchExercise(dir) ==
    LET start == Len(ExercisePrefix) + 1
        run == DigitRun(dir, start)
    IN  IF /\ StartsWith(dir, ExercisePrefix)
           /\ run >= 1
           /\ start + run <= Len(dir)
           /\ dir[start + run] = "-"
        THEN << SubSeq(dir, start, start + run - 1) >>
        ELSE <<>>

\* The callback of .map: the exercise number of a directory entry, or 0.
ExerciseNumberOf(dir) ==
    LET match == MatchExercise(dir)
    IN  IF match # <<>> THEN ParseInt(match[1]) ELSE 0

\* Math.max over a non-empty set of numbers.
MathMax(S) == CHOOSE m \in S : \A x \in S : x <= m

\* nextNumber taken from the number of exercise entries, not from the
\* highest number among them.
NextNumberByCount(dir) ==
    IF dir.exists
    THEN Cardinality({d \in dir.entries : StartsWith(d, ExercisePrefix)}) + 1
    ELSE 1

\* Lines 46-60: nextNumber from the projects directory, given as
\* [exists, entries].
NextNumberOf(dir) ==
    IF dir.exists
    THEN LET projects == {d \in dir.entries : StartsWith(d, ExercisePrefix)}
         IN  IF projects # {}
             THEN MathMax({ExerciseNumberOf(d) : d \in projects}) + 1
             ELSE 1
    ELSE 1

\* Lines 63-65 and 92: the identifiers derived from nextNumber.
PaddedNumber(n) == PadStart(NumberToString(n), PadWidth, "0")
FullExerciseName(n, name) == ExercisePrefix \o PaddedNumber(n) \o <<"-">> \o name
\* The port without the exercise number added.
PortOfBase(n) == BasePort
PortOf(n) == BasePort + n
ShortName(n) == <<"e","x">> \o PaddedNumber(n)
StartKey(n) == <<"s","t","a","r","t",":">> \o ShortName(n)
BuildKey(n) == <<"b","u","i","l","d",":">> \o ShortName(n)
StartCommand(n, name) ==
    <<"n","g"," ","s","e","r","v","e"," ">> \o FullExerciseName(n, name)
        \o <<" ","-","-","p","o","r","t"," ">> \o NumberToString(PortOf(n))
BuildCommand(n, name) ==
    <<"n","g"," ","b","u","i","l","d"," ">> \o FullExerciseName(n, name)

(***************************************************************************)
(* JavaScript objects: own properties are enumerated with the array-index  *)
(* keys first, in ascending numeric order, then the other string keys in   *)
(* the order they were created.                                            *)
(***************************************************************************)
\* 2^32 - 2, the largest array index, in decimal.
MaxArrayIndex == <<"4","2","9","4","9","6","7","2","9","4">>

\* Numeric order of two canonical numeric strings.
NumericLess(a, b) == Len(a) < Len(b) \/ (Len(a) = Len(b) /\ StrLess(a, b))

\* A canonical numeric string of an integer in 0 .. 2^32 - 2.
IsArrayIndex(k) ==
    /\ k # <<>>
    /\ \A i \in 1..Len(k) : IsDigit(k[i])
    /\ (Len(k) > 1 => k[1] # "0")
    /\ ~NumericLess(MaxArrayIndex, k)

ObjKeys(obj) == [i \in 1..Len(obj) |-> obj[i][1]]
ObjHas(obj, k) == \E i \in 1..Len(obj) : obj[i][1] = k
ObjGet(obj, k) == obj[CHOOSE i \in 1..Len(obj) : obj[i][1] = k][2]

\* obj[k] = v: an existing property keeps its place; a new array-index key
\* goes among the array-index keys, any other new key goes last.
ObjSet(obj, k, v) ==
    IF ObjHas(obj, k)
    THEN [i \in 1..Len(obj) |-> IF obj[i][1] = k THEN <<k, v>> ELSE obj[i]]
    ELSE IF IsArrayIndex(k)
    THEN LET before == {i \in 1..Len(obj) :
                           /\ IsArrayIndex(obj[i][1])
                           /\ NumericLess(obj[i][1], k)}
             n == Cardinality(before)
         IN  SubSeq(obj, 1, n) \o << <<k, v>> >> \o SubSeq(obj, n + 1, Len(obj))
    ELSE Append(obj, <<k, v>>)

\* JSON.parse of the members of an object literal, in textual order.
RECURSIVE JsonParse(_)
JsonParse(members) ==
    IF members = <<>> THEN <<>>
    ELSE LET last == members[Len(members)]
         IN  ObjSet(JsonParse(SubSeq(members, 1, Len(members) - 1)), last[1], last[2])

\* JSON.stringify: the members in own-property order.
JsonStringify(obj) == obj

\* Array.prototype.sort() with the default comparison, on distinct strings.
RECURSIVE SortKeys(_)
SortKeys(keys) ==
    IF keys = <<>> THEN <<>>
    ELSE LET least == CHOOSE i \in 1..Len(keys) :
                          \A j \in 1..Len(keys) : j # i => StrLess(keys[i], keys[j])
         IN  << keys[least] >>
             \o SortKeys(SubSeq(keys, 1, least - 1) \o SubSeq(keys, least + 1, Len(keys)))

\* Lines 97-100: sortedScripts, built key by key in sorted order.
RECURSIVE BuildSorted(_, _)
BuildSorted(keys, scripts) ==
    IF keys = <<>> THEN <<>>
    ELSE LET k == keys[Len(keys)]
         IN  ObjSet(BuildSorted(SubSeq(keys, 1, Len(keys) - 1), scripts),
                    k, ObjGet(scripts, k))

\* The two assignments written with += in place of =.
UpdateScriptsAppending(scripts, n, name) ==
    LET Old(o, k) == IF ObjHas(o, k) THEN ObjGet(o, k)
                     ELSE <<"u","n","d","e","f","i","n","e","d">>
        withStart == ObjSet(scripts, StartKey(n),
                            Old(scripts, StartKey(n)) \o StartCommand(n, name))
        withBuild == ObjSet(withStart, BuildKey(n),
                            Old(withStart, BuildKey(n)) \o BuildCommand(n, name))
    IN  BuildSorted(SortKeys(ObjKeys(withBuild)), withBuild)

\* Lines 92-101: packageJson.scripts after the two assignments and the sort.
UpdateScripts(scripts, n, name) ==
    LET withStart == ObjSet(scripts, StartKey(n), StartCommand(n, name))
        withBuild == ObjSet(withStart, BuildKey(n), BuildCommand(n, name))
    IN  BuildSorted(SortKeys(ObjKeys(withBuild)), withBuild)

(***************************************************************************)
(* Lines 112-141: the text the README template interpolates (the fixed     *)
(* lines of the template carry no data and are left out).                  *)
(***************************************************************************)
ReadmeTitle(n, name) ==
    <<"E","x","e","r","c","i","s","e"," ">> \o PaddedNumber(n) \o <<":"," ">>
        \o (IF name = <<>> THEN <<>>
            ELSE << ToUpperCase(name[1]) >> \o ReplaceHyphens(Slice(name, 1)))
ReadmeRun(n) ==
    <<"n","p","m"," ","r","u","n"," ","s","t","a","r","t",":">> \o ShortName(n)
ReadmeUrl(n) ==
    <<"h","t","t","p",":","/","/","l","o","c","a","l","h","o","s","t",":">>
        \o NumberToString(PortOf(n))
ExerciseReadme(n, name) ==
    [title |-> ReadmeTitle(n, name), run |-> ReadmeRun(n), url |-> ReadmeUrl(n)]

(***************************************************************************)
(* State.  The file system: the projects directory, the members of the     *)
(* "scripts" object of package.json, and the README.md of each project     *)
(* directory.  Per running script: its position and its variables.         *)
(***************************************************************************)
VARIABLES
    projects,       \* [exists, entries]: the projects directory and its entries
    manifest,       \* [state, scripts]: package.json ("ok", "noscripts", "malformed")
    readmes,        \* project directory name -> the README.md in it
    pc,             \* per process: the statement it is at
    argv,           \* per process: the arguments after the script name
    nextNumber,     \* per process: nextNumber (0 before line 46 has run)
    packageJson,    \* per process: packageJson.scripts as parsed at line 89
    exitCode,       \* per process: the exit status, NoExit while running
    failed,         \* per process: the stage whose error ended the invocation
    snap,           \* per process: the file system when it was invoked
    scanned,        \* per process: the projects directory as it listed it
    generated,      \* the directories the generator completed successfully
    hist,           \* the allocations made so far, in order
    slot,           \* per process: the index of its allocation in hist
    runs,           \* the number of invocations so far
    found           \* package.json as it was before the first invocation

vars == << projects, manifest, readmes, pc, argv, nextNumber, packageJson,
           exitCode, failed, snap, scanned, generated, hist, slot, runs, found >>

Procs == {1, 2}
MaxRuns == 2
NoExit == 0 - 1

\* The arguments of an invocation: none, an empty one, or a topic.
TopicA == <<"a">>
TopicBC == <<"b","-","c">>
Topics == {TopicA, TopicBC}
Arguments == {<<>>, << <<>> >>} \cup {<<t>> : t \in Topics}

\* Line 30: process.argv[2].
ExerciseName(p) == IF argv[p] = <<>> THEN <<>> ELSE argv[p][1]
\* Line 33: !exerciseName, for undefined and for the empty string.
MissingName(args) == args = <<>> \/ args[1] = <<>>

\* Lines 63-65 for a process that has run line 46-60.
paddedNumber(p) == PaddedNumber(nextNumber[p])
fullExerciseName(p) == FullExerciseName(nextNumber[p], ExerciseName(p))
port(p) == PortOf(nextNumber[p])

NoDirectory == [exists |-> FALSE, entries |-> {}]
TruncatedFile == [title |-> <<>>, run |-> <<>>, url |-> <<>>]
MalformedManifest == [state |-> "malformed", scripts |-> <<>>]

Dir01a == ExercisePrefix \o <<"0","1","-","a">>
Dir03b == ExercisePrefix \o <<"0","3","-","b">>
DirSrc == <<"s","r","c">>

InitProjects ==
    { NoDirectory,
      [exists |-> TRUE, entries |-> {}],
      [exists |-> TRUE, entries |-> {Dir01a, Dir03b, DirSrc}] }

NgServe == <<"n","g"," ","s","e","r","v","e">>
NgBuild == <<"n","g"," ","b","u","i","l","d">>
NgTest == <<"n","g"," ","t","e","s","t">>

\* package.json as found: the members of "scripts" in the order of the text.
InitManifests ==
    { [state |-> "ok", scripts |-> <<>>],
      [state |-> "ok", scripts |-> << << <<"s","t","a","r","t">>, NgServe >>,
                                     << <<"b","u","i","l","d">>, NgBuild >> >>],
      [state |-> "ok", scripts |-> << << <<"z","z","z">>, NgTest >>,
                                     << StartKey(1), NgServe >> >>],
      [state |-> "ok", scripts |-> << << <<"1","0">>, NgTest >>,
                                     << <<"2">>, NgBuild >> >>],
      [state |-> "noscripts", scripts |-> <<>>],
      MalformedManifest }

FileSystem(dir, json, docs) == [projects |-> dir, manifest |-> json, readmes |-> docs]

InitProcs ==
    /\ pc = [p \in Procs |-> "idle"]
    /\ argv = [p \in Procs |-> <<>>]
    /\ nextNumber = [p \in Procs |-> 0]
    /\ packageJson = [p \in Procs |-> <<>>]
    /\ exitCode = [p \in Procs |-> NoExit]
    /\ failed = [p \in Procs |-> "none"]
    /\ scanned = [p \in Procs |-> NoDirectory]
    /\ slot = [p \in Procs |-> 0]
    /\ generated = {}
    /\ hist = <<>>
    /\ runs = 0

Init ==
    /\ projects \in InitProjects
    /\ manifest \in InitManifests
    /\ readmes = <<>>
    /\ snap = [p \in Procs |-> FileSystem(projects, manifest, readmes)]
    /\ found = manifest
    /\ InitProcs

\* The script started without the check of lines 33-38.
InvokeUnchecked(p, args) ==
    /\ pc[p] \in {"idle", "done"}
    /\ runs < MaxRuns
    /\ runs' = runs + 1
    /\ argv' = [argv EXCEPT ![p] = args]
    /\ nextNumber' = [nextNumber EXCEPT ![p] = 0]
    /\ packageJson' = [packageJson EXCEPT ![p] = <<>>]
    /\ snap' = [snap EXCEPT ![p] = FileSystem(projects, manifest, readmes)]
    /\ scanned' = [scanned EXCEPT ![p] = NoDirectory]
    /\ slot' = [slot EXCEPT ![p] = 0]
    /\ pc' = [pc EXCEPT ![p] = "scan"]
    /\ exitCode' = [exitCode EXCEPT ![p] = NoExit]
    /\ failed' = [failed EXCEPT ![p] = "none"]
    /\ UNCHANGED << projects, manifest, readmes, generated, hist, found >>

(***************************************************************************)
(* Lines 30-38: the script starts; without a name it prints the usage and  *)
(* exits with status 1.                                                    *)
(***************************************************************************)
Invoke(p, args) ==
    /\ pc[p] \in {"idle", "done"}
    /\ runs < MaxRuns
    /\ runs' = runs + 1
    /\ argv' = [argv EXCEPT ![p] = args]
    /\ nextNumber' = [nextNumber EXCEPT ![p] = 0]
    /\ packageJson' = [packageJson EXCEPT ![p] = <<>>]
    /\ snap' = [snap EXCEPT ![p] = FileSystem(projects, manifest, readmes)]
    /\ scanned' = [scanned EXCEPT ![p] = NoDirectory]
    /\ slot' = [slot EXCEPT ![p] = 0]
    /\ IF MissingName(args)
       THEN /\ pc' = [pc EXCEPT ![p] = "done"]
            /\ exitCode' = [exitCode EXCEPT ![p] = 1]
            /\ failed' = [failed EXCEPT ![p] = "usage"]
       ELSE /\ pc' = [pc EXCEPT ![p] = "scan"]
            /\ exitCode' = [exitCode EXCEPT ![p] = NoExit]
            /\ failed' = [failed EXCEPT ![p] = "none"]
    /\ UNCHANGED << projects, manifest, readmes, generated, hist, found >>

(***************************************************************************)
(* Lines 45-65: nextNumber and the identifiers.  readdirSync is outside    *)
(* the try block: when it throws, the process dies with status 1.          *)
(***************************************************************************)
Scan(p) ==
    /\ pc[p] = "scan"
    /\ \/ /\ nextNumber' = [nextNumber EXCEPT ![p] = NextNumberOf(projects)]
          /\ scanned' = [scanned EXCEPT ![p] = projects]
          /\ hist' = Append(hist, [number |-> NextNumberOf(projects),
                                   name |-> ExerciseName(p),
                                   visible |-> FALSE])
          /\ slot' = [slot EXCEPT ![p] = Len(hist) + 1]
          /\ pc' = [pc EXCEPT ![p] = "generate"]
          /\ UNCHANGED << exitCode, failed >>
       \/ /\ projects.exists
          /\ pc' = [pc EXCEPT ![p] = "done"]
          /\ exitCode' = [exitCode EXCEPT ![p] = 1]
          /\ failed' = [failed EXCEPT ![p] = "scan"]
          /\ UNCHANGED << nextNumber, scanned, hist, slot >>
    /\ UNCHANGED << projects, manifest, readmes, argv, packageJson, snap,
                    generated, runs, found >>

\* The projects directory with the directory of process p in it.
WithDirectory(p) ==
    [exists |-> TRUE, entries |-> projects.entries \cup {fullExerciseName(p)}]

\* The generator step with its error swallowed: the script goes on to
\* line 87 whether or not the generator succeeded.
GenerateUnguarded(p) ==
    /\ pc[p] = "generate"
    /\ \/ /\ projects' = WithDirectory(p)
          /\ generated' = generated \cup {fullExerciseName(p)}
          /\ UNCHANGED failed
       \/ /\ projects' \in {projects, WithDirectory(p)}
          /\ failed' = [failed EXCEPT ![p] = "generate"]
          /\ UNCHANGED generated
    /\ pc' = [pc EXCEPT ![p] = "read"]
    /\ hist' = [hist EXCEPT ![slot[p]].visible =
                    fullExerciseName(p) \in projects'.entries]
    /\ UNCHANGED << manifest, readmes, argv, nextNumber, packageJson, exitCode,
                    snap, scanned, slot, runs, found >>

(***************************************************************************)
(* Lines 77-80: execSync of the generator.  On success the project         *)
(* directory exists; a failing generator may leave a partial directory.    *)
(***************************************************************************)
Generate(p) ==
    /\ pc[p] = "generate"
    /\ \/ /\ projects' = WithDirectory(p)
          /\ generated' = generated \cup {fullExerciseName(p)}
          /\ pc' = [pc EXCEPT ![p] = "read"]
          /\ UNCHANGED failed
       \/ /\ projects' \in {projects, WithDirectory(p)}
          /\ pc' = [pc EXCEPT ![p] = "catch"]
          /\ failed' = [failed EXCEPT ![p] = "generate"]
          /\ UNCHANGED generated
    /\ hist' = [hist EXCEPT ![slot[p]].visible =
                    fullExerciseName(p) \in projects'.entries]
    /\ UNCHANGED << manifest, readmes, argv, nextNumber, packageJson, exitCode,
                    snap, scanned, slot, runs, found >>

(***************************************************************************)
(* Lines 88-89: package.json is read and parsed.  A file that is not JSON  *)
(* makes JSON.parse throw; one without "scripts" makes line 93 throw.      *)
(***************************************************************************)
ReadManifest(p) ==
    /\ pc[p] = "read"
    /\ \/ /\ manifest.state = "ok"
          /\ packageJson' = [packageJson EXCEPT ![p] = JsonParse(manifest.scripts)]
          /\ pc' = [pc EXCEPT ![p] = "write"]
          /\ UNCHANGED failed
       \/ /\ manifest.state # "ok"
          /\ pc' = [pc EXCEPT ![p] = "catch"]
          /\ failed' = [failed EXCEPT ![p] = "manifest"]
          /\ UNCHANGED packageJson
    /\ UNCHANGED << projects, manifest, readmes, argv, nextNumber, exitCode,
                    snap, scanned, generated, hist, slot, runs, found >>

\* Lines 92-104: the text written to package.json.
NewManifest(p) ==
    [state |-> "ok",
     scripts |-> JsonStringify(
                     UpdateScripts(packageJson[p], nextNumber[p], ExerciseName(p)))]

\* The update applied to package.json as it is at the time of the write,
\* not to the copy read at line 89.
WriteManifestMerging(p) ==
    /\ pc[p] = "write"
    /\ \/ /\ manifest' =
                [state |-> "ok",
                 scripts |-> JsonStringify(UpdateScripts(
                     IF manifest.state = "ok" THEN JsonParse(manifest.scripts)
                     ELSE packageJson[p],
                     nextNumber[p], ExerciseName(p)))]
          /\ pc' = [pc EXCEPT ![p] = "readme"]
          /\ UNCHANGED failed
       \/ /\ manifest' \in {manifest, MalformedManifest}
          /\ pc' = [pc EXCEPT ![p] = "catch"]
          /\ failed' = [failed EXCEPT ![p] = "manifest"]
    /\ UNCHANGED << projects, readmes, argv, nextNumber, packageJson, exitCode,
                    snap, scanned, generated, hist, slot, runs, found >>

(***************************************************************************)
(* Lines 92-104: the scripts are added and sorted and the whole file is    *)
(* written.  A failing writeFileSync leaves the file as it was or cut.     *)
(***************************************************************************)
WriteManifest(p) ==
    /\ pc[p] = "write"
    /\ \/ /\ manifest' = NewManifest(p)
          /\ pc' = [pc EXCEPT ![p] = "readme"]
          /\ UNCHANGED failed
       \/ /\ manifest' \in {manifest, MalformedManifest}
          /\ pc' = [pc EXCEPT ![p] = "catch"]
          /\ failed' = [failed EXCEPT ![p] = "manifest"]
    /\ UNCHANGED << projects, readmes, argv, nextNumber, packageJson, exitCode,
                    snap, scanned, generated, hist, slot, runs, found >>

\* readmes with the README.md of directory dir set to text.
WithReadme(dir, text) ==
    [d \in DOMAIN readmes \cup {dir} |-> IF d = dir THEN text ELSE readmes[d]]

(***************************************************************************)
(* Lines 111-161: the README is written into the project directory, the    *)
(* summary is printed and the script ends with status 0.  The write needs  *)
(* the directory; a failing write leaves no file, the old one or a cut one.*)
(***************************************************************************)
WriteReadme(p) ==
    /\ pc[p] = "readme"
    /\ \/ /\ fullExerciseName(p) \in projects.entries
          /\ readmes' = WithReadme(fullExerciseName(p),
                                   ExerciseReadme(nextNumber[p], ExerciseName(p)))
          /\ pc' = [pc EXCEPT ![p] = "done"]
          /\ exitCode' = [exitCode EXCEPT ![p] = 0]
          /\ UNCHANGED failed
       \/ /\ \/ readmes' = readmes
             \/ /\ fullExerciseName(p) \in projects.entries
                /\ readmes' = WithReadme(fullExerciseName(p), TruncatedFile)
          /\ pc' = [pc EXCEPT ![p] = "catch"]
          /\ failed' = [failed EXCEPT ![p] = "readme"]
          /\ UNCHANGED exitCode
    /\ UNCHANGED << projects, manifest, argv, nextNumber, packageJson, snap,
                    scanned, generated, hist, slot, runs, found >>

\* A catch block that puts package.json back as it was at the start.
CatchRestoring(p) ==
    /\ pc[p] = "catch"
    /\ pc' = [pc EXCEPT ![p] = "done"]
    /\ exitCode' = [exitCode EXCEPT ![p] = 1]
    /\ manifest' = snap[p].manifest
    /\ UNCHANGED << projects, readmes, argv, nextNumber, packageJson,
                    failed, snap, scanned, generated, hist, slot, runs, found >>

(***************************************************************************)
(* Lines 163-167: the catch block reports the error and exits with 1.      *)
(***************************************************************************)
Catch(p) ==
    /\ pc[p] = "catch"
    /\ pc' = [pc EXCEPT ![p] = "done"]
    /\ exitCode' = [exitCode EXCEPT ![p] = 1]
    /\ UNCHANGED << projects, manifest, readmes, argv, nextNumber, packageJson,
                    failed, snap, scanned, generated, hist, slot, runs, found >>

Step(p) ==
    \/ Scan(p)
    \/ Generate(p)
    \/ ReadManifest(p)
    \/ WriteManifest(p)
    \/ WriteReadme(p)
    \/ Catch(p)

\* Invocations one after the other: the script is run by one operator.
Next ==
    \/ \E args \in Arguments : Invoke(1, args)
    \/ Step(1)

Spec == Init /\ [][Next]_vars

\* Two invocations, one per process, interleaved on the same repository
\* with no locking.
NextRace ==
    \/ \E p \in Procs, args \in Arguments : pc[p] = "idle" /\ Invoke(p, args)
    \/ \E p \in Procs : Step(p)

SpecRace == Init /\ [][NextRace]_vars

(***************************************************************************)
(* The allocator on its own: the script is started on every projects       *)
(* directory made of the entries below and runs up to line 65.             *)
(***************************************************************************)
DirectoryEntries ==
    { Dir01a,
      Dir03b,
      ExercisePrefix \o <<"2","-","c">>,
      ExercisePrefix \o <<"1","0","-","d">>,
      ExercisePrefix \o <<"0","0","-","z">>,
      ExercisePrefix,
      ExercisePrefix \o <<"x","-","1">>,
      ExercisePrefix \o <<"0","7">>,
      <<"e","x","e","r","c","i","s","e","5","-","a">>,
      DirSrc }

InitAlloc ==
    /\ projects \in {NoDirectory}
                    \cup {[exists |-> TRUE, entries |-> E] : E \in SUBSET DirectoryEntries}
    /\ manifest = [state |-> "ok", scripts |-> <<>>]
    /\ readmes = <<>>
    /\ snap = [p \in Procs |-> FileSystem(projects, manifest, readmes)]
    /\ found = manifest
    /\ InitProcs

NextAlloc ==
    \/ \E args \in Arguments : Invoke(1, args)
    \/ Scan(1)

SpecAlloc == InitAlloc /\ [][NextAlloc]_vars

(***************************************************************************)
(* The manifest update on its own: the script stands at line 88 with an    *)
(* allocated number, on every package.json of up to MaxMembers members     *)
(* with keys and values from the pools below.                              *)
(***************************************************************************)
MaxMembers == 2

KeyPool ==
    { <<"s","t","a","r","t">>, <<"z","z","z">>, <<"B">>, <<"2">>, <<"1","0">>,
      <<"0","1">>, StartKey(1), BuildKey(10) }
ValuePool == { NgTest, NgBuild }

\* The member lists of length n over the pools, with distinct keys.
RECURSIVE MemberLists(_)
MemberLists(n) ==
    IF n = 0 THEN { <<>> }
    ELSE LET shorter == MemberLists(n - 1)
         IN  shorter \cup
             { Append(m, <<k, v>>) :
                 m \in {x \in shorter : Len(x) = n - 1},
                 k \in KeyPool, v \in ValuePool }

DistinctKeys(members) ==
    \A i, j \in 1..Len(members) : members[i][1] = members[j][1] => i = j

AllocatedNumbers == {1, 10, 100}

InitUpdate ==
    /\ manifest \in
         {[state |-> "ok", scripts |-> m] :
             m \in {x \in MemberLists(MaxMembers) : DistinctKeys(x)}}
         \cup {MalformedManifest}
    /\ \E n \in AllocatedNumbers, t \in Topics :
         /\ nextNumber = [p \in Procs |-> IF p = 1 THEN n ELSE 0]
         /\ argv = [p \in Procs |-> IF p = 1 THEN <<t>> ELSE <<>>]
         /\ projects = [exists |-> TRUE, entries |-> {FullExerciseName(n, t)}]
         /\ generated = {FullExerciseName(n, t)}
         /\ hist = << [number |-> n, name |-> t, visible |-> TRUE] >>
    /\ readmes = <<>>
    /\ pc = [p \in Procs |-> IF p = 1 THEN "read" ELSE "idle"]
    /\ packageJson = [p \in Procs |-> <<>>]
    /\ exitCode = [p \in Procs |-> NoExit]
    /\ failed = [p \in Procs |-> "none"]
    /\ scanned = [p \in Procs |-> NoDirectory]
    /\ slot = [p \in Procs |-> IF p = 1 THEN 1 ELSE 0]
    /\ snap = [p \in Procs |-> FileSystem(projects, manifest, readmes)]
    /\ found = manifest
    /\ runs = 1

NextUpdate ==
    \/ ReadManifest(1)
    \/ WriteManifest(1)

SpecUpdate == InitUpdate /\ [][NextUpdate]_vars

(***************************************************************************)
(* Properties.                                                             *)
(***************************************************************************)

\* The entries named exercise-<NN>-..., and the NN of one, stated on the
\* name itself: the prefix, then k >= 1 digits, then a hyphen.
DigitsAt(name, k) ==
    /\ Len(name) >= Len(ExercisePrefix) + k + 1
    /\ SubSeq(name, 1, Len(ExercisePrefix)) = ExercisePrefix
    /\ \A i \in 1..k : IsDigit(name[Len(ExercisePrefix) + i])
    /\ name[Len(ExercisePrefix) + k + 1] = "-"
IsNumbered(name) == \E k \in 1..Len(name) : DigitsAt(name, k)
RECURSIVE Power10(_)
Power10(e) == IF e = 0 THEN 1 ELSE 10 * Power10(e - 1)
DecimalValue(digits) ==
    LET RECURSIVE Sum(_)
        Sum(i) == IF i = 0 THEN 0
                  ELSE Sum(i - 1)
                       + (CharCode[digits[i]] - CharCode["0"]) * Power10(Len(digits) - i)
    IN  Sum(Len(digits))
NumberIn(name) ==
    LET k == CHOOSE k \in 1..Len(name) : DigitsAt(name, k)
    IN  DecimalValue(SubSeq(name, Len(ExercisePrefix) + 1, Len(ExercisePrefix) + k))
ExpectedNext(dir) ==
    LET numbered == {d \in dir.entries : IsNumbered(d)}
    IN  IF ~dir.exists \/ numbered = {} THEN 1
        ELSE 1 + (CHOOSE m \in {NumberIn(d) : d \in numbered} :
                     \A d \in numbered : NumberIn(d) <= m)

\* C1: for every snapshot of the projects directory, the allocated number is
\* 1 + the highest NN among the entries named exercise-<NN>-..., and 1 when
\* the directory is absent, empty or holds no such entry (entries that only
\* start with exercise- count as 0).
C1_NextNumber ==
    \A p \in Procs :
        pc[p] = "generate" => nextNumber[p] = ExpectedNext(scanned[p])

\* C1 witness: the script has allocated 11 from a directory that holds the
\* two-digit exercise-10-d, lower numbers, and entries without a number.
C1_Witness ==
    /\ pc[1] = "generate"
    /\ nextNumber[1] = 11
    /\ {Dir01a, ExercisePrefix, ExercisePrefix \o <<"0","7">>, DirSrc}
           \subseteq scanned[1].entries

\* What the invocation of process p was started on is still in place.
ManifestUntouched(p) == manifest = snap[p].manifest
ReadmesUntouched(p) == readmes = snap[p].readmes
ProjectsUntouched(p) == projects = snap[p].projects

\* C2: when the generator step fails, the manifest and README stages never
\* run, so neither file is written, and the process ends with status 1.
C2_GeneratorFailure ==
    \A p \in Procs :
        failed[p] = "generate" =>
            /\ pc[p] \in {"catch", "done"}
            /\ pc[p] = "done" => exitCode[p] = 1
            /\ ManifestUntouched(p)
            /\ ReadmesUntouched(p)

\* C2 witness: an invocation that followed a successful one ended with
\* status 1 on a generator failure that left a partial directory.
C2_Witness ==
    /\ failed[1] = "generate"
    /\ pc[1] = "done"
    /\ exitCode[1] = 1
    /\ fullExerciseName(1) \in projects.entries
    /\ manifest.state = "ok" /\ manifest.scripts # found.scripts

\* C3: an invocation without a topic argument ends with status 1 and leaves
\* the projects directory, the manifest and the READMEs as they were; no
\* number is allocated, so the generator and the write stages never run.
C3_MissingArgument ==
    \A p \in Procs :
        (pc[p] # "idle" /\ MissingName(argv[p])) =>
            /\ pc[p] = "done"
            /\ exitCode[p] = 1
            /\ slot[p] = 0
            /\ ProjectsUntouched(p)
            /\ ManifestUntouched(p)
            /\ ReadmesUntouched(p)

\* C3 witness: an invocation with an empty argument, made after a
\* successful one, has ended.
C3_Witness ==
    /\ pc[1] = "done"
    /\ argv[1] = << <<>> >>
    /\ exitCode[1] = 1
    /\ generated # {}
    /\ DOMAIN readmes # {}

\* The decimal digits of n >= 0, with no leading zero.
IsDecimalOf(digits, n) ==
    /\ digits # <<>>
    /\ \A i \in 1..Len(digits) : IsDigit(digits[i])
    /\ Len(digits) > 1 => digits[1] # "0"
    /\ DecimalValue(digits) = n

\* text is lead followed by the decimal digits of n.
EndsWithNumber(text, lead, n) ==
    /\ StartsWith(text, lead)
    /\ IsDecimalOf(SubSeq(text, Len(lead) + 1, Len(text)), n)

\* C5: when an invocation with topic T and number N ends with status 0, the
\* directory exercise-<NN>-T exists, the manifest maps start:ex<NN> to the
\* serve command of that project on port 4200 + N and build:ex<NN> to its
\* build command, and the README of the directory carries the URL with
\* port 4200 + N.
C5_Success ==
    \A p \in Procs :
        (pc[p] = "done" /\ exitCode[p] = 0) =>
            LET N == nextNumber[p]
                dir == fullExerciseName(p)
                scripts == JsonParse(manifest.scripts)
            IN  /\ N >= 1
                /\ dir \in projects.entries
                /\ NumberIn(dir) = N
                /\ manifest.state = "ok"
                /\ ObjHas(scripts, StartKey(N))
                /\ EndsWithNumber(ObjGet(scripts, StartKey(N)),
                                  NgServe \o <<" ">> \o dir
                                      \o <<" ","-","-","p","o","r","t"," ">>,
                                  4200 + N)
                /\ ObjHas(scripts, BuildKey(N))
                /\ ObjGet(scripts, BuildKey(N)) = NgBuild \o <<" ">> \o dir
                /\ dir \in DOMAIN readmes
                /\ EndsWithNumber(readmes[dir].url,
                                  <<"h","t","t","p",":","/","/","l","o","c","a","l",
                                    "h","o","s","t",":">>,
                                  4200 + N)

\* C5 witness: the second of two successful invocations, for topic b-c with
\* number 5 after exercises 01 and 03 and its own exercise 04.
C5_Witness ==
    /\ pc[1] = "done"
    /\ exitCode[1] = 0
    /\ nextNumber[1] = 5
    /\ ExerciseName(1) = TopicBC
    /\ Dir03b \in projects.entries

\* C6: over invocations that do not overlap, as long as the directory of
\* each is visible to the next, the allocated numbers strictly increase, so
\* no two of them share a number, a port or a command name, even with the
\* same topic.
C6_Increasing ==
    \A i, j \in 1..Len(hist) :
        (i < j /\ \A k \in i..(j - 1) : hist[k].visible) =>
            /\ hist[i].number < hist[j].number
            /\ BasePort + hist[i].number # BasePort + hist[j].number
            /\ StartKey(hist[i].number) # StartKey(hist[j].number)
            /\ BuildKey(hist[i].number) # BuildKey(hist[j].number)

\* C6 witness: two invocations with the same topic, the directory of the
\* first visible to the second.
C6_Witness ==
    /\ Len(hist) >= 2
    /\ hist[1].visible
    /\ hist[1].name = hist[2].name
    /\ hist[2].number = hist[1].number + 1

\* C8: when the README write fails after the generator and the manifest
\* update succeeded, the invocation ends with status 1 and nothing is rolled
\* back: the manifest keeps the two scripts just added and the generated
\* directory stays.
C8_NoRollback ==
    \A p \in Procs :
        failed[p] = "readme" =>
            /\ pc[p] \in {"catch", "done"}
            /\ pc[p] = "done" => exitCode[p] = 1
            /\ manifest.state = "ok"
            /\ ObjHas(manifest.scripts, StartKey(nextNumber[p]))
            /\ ObjGet(manifest.scripts, StartKey(nextNumber[p]))
                   = StartCommand(nextNumber[p], ExerciseName(p))
            /\ ObjHas(manifest.scripts, BuildKey(nextNumber[p]))
            /\ ObjGet(manifest.scripts, BuildKey(nextNumber[p]))
                   = BuildCommand(nextNumber[p], ExerciseName(p))
            /\ fullExerciseName(p) \in projects.entries
            /\ fullExerciseName(p) \in generated

\* C8 witness: an invocation has ended with status 1 on a README failure.
C8_Witness ==
    /\ failed[1] = "readme"
    /\ pc[1] = "done"
    /\ exitCode[1] = 1
    /\ ~ObjHas(snap[1].manifest.scripts, StartKey(nextNumber[1]))

\* The keys start:ex<digits> and build:ex<digits>.
IsToolKey(k) ==
    \E lead \in { <<"s","t","a","r","t",":","e","x">>, <<"b","u","i","l","d",":","e","x">> } :
        /\ StartsWith(k, lead)
        /\ Len(k) > Len(lead)
        /\ \A i \in (Len(lead) + 1)..Len(k) : IsDigit(k[i])
NoToolKeys(json) ==
    \A i \in 1..Len(json.scripts) : ~IsToolKey(json.scripts[i][1])

\* C10: starting from a manifest without tool entries, after any sequence of
\* invocations that do not overlap, whatever stage each fails at, start:exNN
\* is in the manifest exactly when build:exNN is, and every such pair names a
\* directory exercise-<NN>-<topic> that the generator completed.
C10_PairsNameGenerated ==
    (NoToolKeys(found) /\ manifest.state = "ok") =>
        \A i \in 1..Len(manifest.scripts) :
            IsToolKey(manifest.scripts[i][1]) =>
                \E h \in 1..Len(hist) :
                    LET N == hist[h].number
                        T == hist[h].name
                    IN  /\ manifest.scripts[i][1] \in {StartKey(N), BuildKey(N)}
                        /\ ObjHas(manifest.scripts, StartKey(N))
                        /\ ObjHas(manifest.scripts, BuildKey(N))
                        /\ ObjGet(manifest.scripts, StartKey(N)) = StartCommand(N, T)
                        /\ ObjGet(manifest.scripts, BuildKey(N)) = BuildCommand(N, T)
                        /\ FullExerciseName(N, T) \in generated

\* C10 witness: the manifest holds the pair of one generated directory and
\* none for another, whose invocation failed at the manifest stage.
C10_Witness ==
    /\ NoToolKeys(found)
    /\ manifest.state = "ok"
    /\ \E i \in 1..Len(manifest.scripts) : IsToolKey(manifest.scripts[i][1])
    /\ \E h \in 1..Len(hist) :
           /\ FullExerciseName(hist[h].number, hist[h].name) \in generated
           /\ ~ObjHas(manifest.scripts, StartKey(hist[h].number))
           /\ ~ObjHas(manifest.scripts, BuildKey(hist[h].number))

KeySet(members) == {members[i][1] : i \in 1..Len(members)}
MemberSet(members) == {members[i] : i \in 1..Len(members)}

\* Process p completes the manifest update in this step.
ManifestWritten(p) == pc[p] = "write" /\ pc'[p] = "readme"

\* C4: for every scripts mapping and allocated number NN, the mapping after
\* the update has exactly the previous keys plus start:exNN and build:exNN,
\* listed in ascending lexicographic order, and every entry present before
\* is present after with its value unchanged.
C4_KeysSortedValuesKept ==
    [][\A p \in Procs :
          (ManifestWritten(p) /\ manifest.state = "ok") =>
              LET before == manifest.scripts
                  after == manifest'.scripts
              IN  /\ KeySet(after) = KeySet(before)
                         \cup {StartKey(nextNumber[p]), BuildKey(nextNumber[p])}
                  /\ Len(after) = Cardinality(KeySet(after))
                  /\ \A i, j \in 1..Len(after) :
                         i < j => StrLess(after[i][1], after[j][1])
                  /\ MemberSet(before) \subseteq MemberSet(after)]_vars

\* C9: the manifest update is idempotent for a fixed number, name and port:
\* applied to its own result it yields the same keys in the same order with
\* the same values, and sorting the sorted mapping again changes nothing.
C9_Idempotent ==
    \A p \in Procs :
        (pc[p] = "readme" /\ manifest.state = "ok") =>
            LET once == JsonParse(manifest.scripts)
            IN  /\ JsonStringify(UpdateScripts(once, nextNumber[p], ExerciseName(p)))
                       = manifest.scripts
                /\ BuildSorted(SortKeys(ObjKeys(once)), once) = once

\* C9 witness: the update has run on a manifest that held an array-index key
\* and an older start:ex01 with another value.
C9_Witness ==
    /\ pc[1] = "readme"
    /\ nextNumber[1] = 1
    /\ found.state = "ok"
    /\ KeySet(found.scripts) = { <<"1","0">>, StartKey(1) }
    /\ ObjGet(found.scripts, StartKey(1)) = NgTest
    /\ manifest.scripts # found.scripts

\* C7: two invocations run interleaved with no locking.  One that lists the
\* projects directory while it is still as the other listed it is allocated
\* the same number and port; and a manifest write puts the writer's own copy
\* of the file in place, so that what the other invocation wrote since that
\* copy was read is removed or replaced (last writer wins, no merge).
C7_NoLocking ==
    [][\A p \in Procs : \A q \in Procs \ {p} :
          /\ (/\ pc[q] = "scan" /\ pc'[q] = "generate"
              /\ pc[p] = "generate"
              /\ scanned[p] = projects)
                 => /\ nextNumber'[q] = nextNumber[p]
                    /\ PortOf(nextNumber'[q]) = PortOf(nextNumber[p])
          /\ ManifestWritten(p)
                 => /\ KeySet(manifest'.scripts) =
                           KeySet(packageJson[p])
                               \cup {StartKey(nextNumber[p]), BuildKey(nextNumber[p])}
                    /\ \A m \in MemberSet(manifest.scripts) \ MemberSet(packageJson[p]) :
                           \/ m \notin MemberSet(manifest'.scripts)
                           \/ m \in { << StartKey(nextNumber[p]),
                                         StartCommand(nextNumber[p], ExerciseName(p)) >>,
                                      << BuildKey(nextNumber[p]),
                                         BuildCommand(nextNumber[p], ExerciseName(p)) >> }
      ]_vars

\* C7 witness: both invocations hold the same number and port, each with its
\* own topic, both have written the manifest, and the scripts the first one
\* added have been replaced by those of the second.
C7_Witness ==
    /\ nextNumber[1] >= 1
    /\ nextNumber[1] = nextNumber[2]
    /\ port(1) = port(2)
    /\ ExerciseName(1) # ExerciseName(2)
    /\ pc[1] \in {"readme", "done"} /\ failed[1] = "none"
    /\ pc[2] \in {"readme", "done"} /\ failed[2] = "none"
    /\ manifest.state = "ok"
    /\ ObjGet(manifest.scripts, StartKey(nextNumber[1]))
           = StartCommand(nextNumber[2], ExerciseName(2))
    /\ ObjGet(manifest.scripts, BuildKey(nextNumber[1]))
           # BuildCommand(nextNumber[1], ExerciseName(1))
=============================================================================
